---- MODULE Spec2Model ----
(***************************************************************************)
(* IntegrationTestEnvironment (src/src/lib.rs): a fixture builder that     *)
(* keeps a specification store in memory (entries), owns a temporary       *)
(* workspace directory (tmp_dir), materializes the store into it (setup),  *)
(* inspects it (tree, read_file), changes permissions                      *)
(* (set_exec_permission) and builds process invocations (command).         *)
(*                                                                         *)
(* A path is a sequence of components.  A key of the store is compared by  *)
(* components as PathBuf does, so <<".","a">> ("./a") and <<"a">> ("a")    *)
(* are two keys, while both name the same place below the workspace root.  *)
(***************************************************************************)
EXTENDS Integers, Sequences, FiniteSets, TLC

VARIABLES
    entries,               \* self.entries: the specification store
    cfg_command_callback,  \* self.cfg_command_callback: the stored hook
    disk,                  \* the workspace: self.tmp_dir and what is below it
    phase,                 \* "live", "panicked" (unwinding) or "dropped"
    ret,                   \* what the last call returned, or its panic
    last,                  \* history: per key, the last add_file/add_dir call
    setups,                \* history: the setup() calls that have returned
    dirty,                 \* history: add_file/add_dir called since the last setup()
    repeated,              \* history: the last setup() followed another with no
                           \*   add_file/add_dir call in between
    ow                     \* history: the key whose entry the last builder call
                           \*   turned from file to directory or back, when that
                           \*   call came before the first setup(); else << >>

vars == <<entries, cfg_command_callback, disk, phase, ret, last, setups, dirty,
          repeated, ow>>

\* ------------------------------------------------------------------ bounds

\* setup() calls that complete in one run of a test.
MaxSetups == 2

\* ------------------------------------------------------------------ inputs

\* The relative paths a test hands to add_file, add_dir, read_file and
\* set_exec_permission: "a", "./a", "b/a".
Keys == { <<"a">>, <<".", "a">>, <<"b", "a">> }

\* The file contents a test hands to add_file.
Contents == { "x", "y" }

\* The crates command() is asked for: one whose binary is built, one not.
Crates == { "bin", "missing" }

\* The hooks a test installs: the default |_,c| c, one that adds an argument,
\* one that overrides the working directory.
Hooks == { "identity", "arg", "chdir" }

\* ------------------------------------------------------------------ store

\* HashMap<PathBuf, Option<String>>: no entry, None (directory), Some(text).
NoEntry == [tag |-> "absent", content |-> ""]

None == [tag |-> "None", content |-> ""]

Some(c) == [tag |-> "Some", content |-> c]

EntryKeys(e) == { k \in Keys : e[k] # NoEntry }

\* ------------------------------------------------------------- filesystem

\* The place below the workspace root a key names once joined to the root:
\* a "." component names the directory it stands in.
Loc(k) == SelectSeq(k, LAMBDA c : c # ".")

Root == << >>

\* The workspace root and the places below it.
Locs == UNION { { SubSeq(Loc(k), 1, n) : n \in 0..Len(Loc(k)) } : k \in Keys }

Parent(p) == SubSeq(p, 1, Len(p) - 1)

\* rwxr-xr-x, the mode set_exec_permission sets.
ExecMode == 493

\* rw-r--r--, the mode of a file File::create makes (umask 022).
FileMode == 420

\* rwxr-xr-x, the mode of a directory create_dir makes (umask 022).
DirMode == 493

Absent == [kind |-> "absent", content |-> "", mode |-> 0]

DirNode == [kind |-> "dir", content |-> "", mode |-> DirMode]

FileNode(c, m) == [kind |-> "file", content |-> c, mode |-> m]

EmptyDisk == [p \in Locs |-> Absent]

\* TempDir::new has made the workspace root, and nothing below it.
NewDisk == [EmptyDisk EXCEPT ![Root] = DirNode]

Exists(d, p) == d[p].kind # "absent"

IsDir(d, p) == d[p].kind = "dir"

IsFile(d, p) == d[p].kind = "file"

\* The error of resolving the directory a new name is made in: ENOTDIR when
\* a component of it is a file, ENOENT when one is missing.
RECURSIVE DirError(_, _)
DirError(d, p) ==
    LET up == IF p = Root THEN "ok" ELSE DirError(d, Parent(p))
    IN  IF up # "ok" THEN up
        ELSE IF IsDir(d, p) THEN "ok"
        ELSE IF IsFile(d, p) THEN "ENOTDIR"
        ELSE "ENOENT"

\* mkdir(2)
Mkdir(d, p) ==
    IF p = Root THEN [err |-> IF Exists(d, p) THEN "EEXIST" ELSE "ENOENT", disk |-> d]
    ELSE IF Exists(d, p) THEN [err |-> "EEXIST", disk |-> d]
    ELSE IF DirError(d, Parent(p)) # "ok"
         THEN [err |-> DirError(d, Parent(p)), disk |-> d]
         ELSE [err |-> "ok", disk |-> [d EXCEPT ![p] = DirNode]]

\* Mutant of create_all: create_dir, which fails on a directory that exists
\* and makes no parent.
create_dir_strict(d, p) ==
    LET r == Mkdir(d, p) IN [ok |-> r.err = "ok", disk |-> r.disk]

\* std::fs::create_dir_all, which fs_extra::dir::create_all(path, false)
\* calls: done when the path is a directory; else mkdir, creating the parent
\* first on ENOENT; any other error is success if the path is a directory.
RECURSIVE create_all(_, _)
create_all(d, p) ==
    IF IsDir(d, p) THEN [ok |-> TRUE, disk |-> d]
    ELSE LET r == Mkdir(d, p)
         IN  CASE r.err = "ok" -> [ok |-> TRUE, disk |-> r.disk]
               [] r.err = "ENOENT" ->
                    LET up == IF p = Root THEN [ok |-> FALSE, disk |-> d]
                              ELSE create_all(d, Parent(p))
                    IN  IF ~up.ok THEN [ok |-> FALSE, disk |-> up.disk]
                        ELSE LET again == Mkdir(up.disk, p)
                             IN  [ok |-> again.err = "ok" \/ IsDir(again.disk, p),
                                  disk |-> again.disk]
               [] OTHER -> [ok |-> IsDir(d, p), disk |-> d]

\* fs_extra::file::write_all: File::create (truncate an existing file and
\* keep its mode, or make a new one) and write the content.
write_all(d, p, c) ==
    IF p = Root \/ DirError(d, Parent(p)) # "ok" \/ IsDir(d, p)
    THEN [ok |-> FALSE, disk |-> d]
    ELSE [ok |-> TRUE,
          disk |-> [d EXCEPT ![p] =
                      FileNode(c, IF IsFile(d, p) THEN d[p].mode ELSE FileMode)]]

\* fs_extra::file::read_to_string: an error unless the path is a file.
read_to_string(d, p) ==
    IF IsFile(d, p) /\ DirError(d, Parent(p)) = "ok"
    THEN [ok |-> TRUE, val |-> d[p].content]
    ELSE [ok |-> FALSE, val |-> ""]

\* std::fs::set_permissions: chmod(2) on a file or a directory.
set_permissions(d, p, m) ==
    IF Exists(d, p) /\ (p = Root \/ DirError(d, Parent(p)) = "ok")
    THEN [ok |-> TRUE, disk |-> [d EXCEPT ![p].mode = m]]
    ELSE [ok |-> FALSE, disk |-> d]

\* std::fs::remove_dir_all, which TempDir's Drop calls and whose error it
\* drops: it fails where a directory cannot be written by its owner.
remove_dir_all(d) ==
    IF \A p \in Locs : IsDir(d, p) => (d[p].mode \div 128) % 2 = 1
    THEN EmptyDisk
    ELSE d

\* -------------------------------------------------------------- tree walk

\* tmp_dir.path(): the absolute path of the workspace root.
RootPath == <<"tmp", "test.0">>

\* Path::join of the root and a place below it.
Abs(p) == RootPath \o p

\* Path::strip_prefix: the rest of the path when it starts with the base.
strip_prefix(path, base) ==
    IF Len(path) >= Len(base) /\ SubSeq(path, 1, Len(base)) = base
    THEN [ok |-> TRUE, val |-> SubSeq(path, Len(base) + 1, Len(path))]
    ELSE [ok |-> FALSE, val |-> << >>]

IsPrefix(p, q) == Len(p) <= Len(q) /\ SubSeq(q, 1, Len(p)) = p

\* The orders a loop may visit the members of a finite set in.
Orders(S) ==
    { o \in [1..Cardinality(S) -> S] :
        \A i, j \in 1..Cardinality(S) : i # j => o[i] # o[j] }

\* What WalkDir::new(root) yields: the root itself first, then every file and
\* directory below it, a directory before what it holds and its subtree in
\* one run, siblings in the order the directory lists them.
Walked(d) == { p \in Locs : Exists(d, p) /\ DirError(d, Parent(p)) = "ok" }

DepthFirst(o) ==
    /\ \A i, j \in DOMAIN o : IsPrefix(o[i], o[j]) => i <= j
    /\ \A i, j \in DOMAIN o :
          (i < j /\ IsPrefix(o[i], o[j])) => \A m \in i..j : IsPrefix(o[i], o[m])

WalkDir(d) ==
    { [i \in DOMAIN o |-> Abs(o[i])] : o \in { w \in Orders(Walked(d)) : DepthFirst(w) } }

\* The byte a one-letter component is compared by.
Byte(c) == CASE c = "." -> 46 [] c = "a" -> 97 [] c = "b" -> 98

\* Ord of PathBuf: component by component, a proper prefix first.
RECURSIVE PathLess(_, _)
PathLess(p, q) ==
    IF q = << >> THEN FALSE
    ELSE IF p = << >> THEN TRUE
    ELSE IF Head(p) # Head(q) THEN Byte(Head(p)) < Byte(Head(q))
    ELSE PathLess(Tail(p), Tail(q))

\* The filter_map of tree(): the entries whose prefix strips, stripped.
RECURSIVE filter_map(_)
filter_map(w) ==
    IF w = << >> THEN << >>
    ELSE LET r == strip_prefix(Head(w), RootPath)
         IN  (IF r.ok THEN <<r.val>> ELSE << >>) \o filter_map(Tail(w))

\* Mutant of sort: the walk's order is kept.
sort_none(v) == v

\* Vec::sort
sort(v) == SortSeq(v, PathLess)

\* tree() on one walk of the workspace.
tree(w) == sort(filter_map(w))

\* ---------------------------------------------------------------- command

\* A Command: the program, its working directory and its arguments.
\* No working directory set: the child inherits the caller's.
Inherit == <<"inherit">>

\* Command::cargo_bin: the binary of a crate of this build, or an error.
cargo_bin(crate) ==
    IF crate = "bin"
    THEN [ok |-> TRUE,
          val |-> [program |-> crate, current_dir |-> Inherit, args |-> << >>]]
    ELSE [ok |-> FALSE,
          val |-> [program |-> crate, current_dir |-> Inherit, args |-> << >>]]

\* Command::current_dir
current_dir(c, dir) == [c EXCEPT !.current_dir = dir]

\* (self.cfg_command_callback)(path, command): the stored closure applied.
\* "identity" is |_, c| c; "arg" is |p, mut c| { c.arg(p); c }; "chdir" is
\* |p, mut c| { c.current_dir(p.join("a")); c }.
callback(h, path, c) ==
    CASE h = "identity" -> c
      [] h = "arg" -> [c EXCEPT !.args = Append(@, path)]
      [] h = "chdir" -> current_dir(c, path \o <<"a">>)

\* Mutant of bound_command: the working directory is left unset.
bound_command_unbound(c) == c

\* The invocation command() hands the stored closure.
bound_command(c) == current_dir(c, RootPath)

\* ------------------------------------------------------------------ store

\* Mutant of insert: an entry that exists is kept (entry().or_insert).
insert_keep(e, k, v) == IF e[k] = NoEntry THEN [e EXCEPT ![k] = v] ELSE e

\* HashMap::insert: the value of the key is replaced.
insert(e, k, v) == [e EXCEPT ![k] = v]

\* ------------------------------------------------------------------ setup

\* The body of setup()'s loop for one entry of the store.
setup_entry(d, k, v) ==
    IF v.tag = "Some"
    THEN LET up == create_all(d, Parent(Loc(k)))
         IN  IF ~up.ok THEN [ok |-> FALSE, disk |-> up.disk]
             ELSE write_all(up.disk, Loc(k), v.content)
    ELSE create_all(d, Loc(k))

\* setup()'s loop over the store in one order, from its i-th entry on; the
\* first failure ends it (expect).
RECURSIVE setup_from(_, _, _, _)
setup_from(d, e, order, i) ==
    IF i > Len(order) THEN [ok |-> TRUE, disk |-> d]
    ELSE LET r == setup_entry(d, order[i], e[order[i]])
         IN  IF ~r.ok THEN [ok |-> FALSE, disk |-> r.disk]
             ELSE setup_from(r.disk, e, order, i + 1)

\* ---------------------------------------------------------------- results

Unit(op) == [op |-> op, arg |-> << >>, status |-> "unit", val |-> << >>]

Value(op, arg, v) == [op |-> op, arg |-> arg, status |-> "value", val |-> v]

Result(op, arg, ok) ==
    [op |-> op, arg |-> arg, status |-> IF ok THEN "Ok" ELSE "Err", val |-> << >>]

\* expect and unwrap on an error: the call panics.
Panic(op, arg) == [op |-> op, arg |-> arg, status |-> "panic", val |-> << >>]

\* The key a builder call turned from file to directory or back.
Turned(k, v) ==
    IF setups = 0 /\ last[k] # NoEntry /\ last[k].tag # v.tag THEN k ELSE << >>

\* ------------------------------------------------------------------ state

\* IntegrationTestEnvironment::new: the workspace root is made, the store is
\* empty, the hook is the identity.
Init ==
    /\ entries = [k \in Keys |-> NoEntry]
    /\ cfg_command_callback = "identity"
    /\ disk = NewDisk
    /\ phase = "live"
    /\ ret = Unit("new")
    /\ last = [k \in Keys |-> NoEntry]
    /\ setups = 0
    /\ dirty = FALSE
    /\ repeated = FALSE
    /\ ow = << >>

set_cfg_command_callback ==
    /\ phase = "live"
    /\ \E h \in Hooks : cfg_command_callback' = h
    /\ ret' = Unit("set_cfg_command_callback")
    /\ UNCHANGED <<entries, disk, phase, last, setups, dirty, repeated, ow>>

add_file ==
    /\ phase = "live"
    /\ \E k \in Keys, c \in Contents :
          /\ entries' = insert(entries, k, Some(c))
          /\ last' = [last EXCEPT ![k] = Some(c)]
          /\ ow' = Turned(k, Some(c))
    /\ ret' = Unit("add_file")
    /\ dirty' = (setups > 0)
    /\ UNCHANGED <<cfg_command_callback, disk, phase, setups, repeated>>

\* Mutant of add_dir: the directory is made at once.
add_dir_eager ==
    /\ phase = "live"
    /\ \E k \in Keys :
          /\ entries' = [entries EXCEPT ![k] = None]
          /\ last' = [last EXCEPT ![k] = None]
          /\ ow' = Turned(k, None)
          /\ disk' = create_all(disk, Loc(k)).disk
    /\ ret' = Unit("add_dir")
    /\ dirty' = (setups > 0)
    /\ UNCHANGED <<cfg_command_callback, phase, setups, repeated>>

add_dir ==
    /\ phase = "live"
    /\ \E k \in Keys :
          /\ entries' = insert(entries, k, None)
          /\ last' = [last EXCEPT ![k] = None]
          /\ ow' = Turned(k, None)
    /\ ret' = Unit("add_dir")
    /\ dirty' = (setups > 0)
    /\ UNCHANGED <<cfg_command_callback, disk, phase, setups, repeated>>

\* self.entries.iter() visits the store in an order the hasher decides.
setup ==
    /\ phase = "live"
    /\ setups < MaxSetups
    /\ \E order \in Orders(EntryKeys(entries)) :
          LET r == setup_from(disk, entries, order, 1)
          IN  /\ disk' = r.disk
              /\ IF r.ok
                 THEN /\ ret' = Unit("setup")
                      /\ phase' = "live"
                      /\ setups' = setups + 1
                      /\ dirty' = FALSE
                      /\ repeated' = (setups > 0 /\ ~dirty)
                 ELSE /\ ret' = Panic("setup", << >>)
                      /\ phase' = "panicked"
                      /\ UNCHANGED <<setups, dirty, repeated>>
    /\ UNCHANGED <<entries, cfg_command_callback, last, ow>>

read_file ==
    /\ phase = "live"
    /\ \E k \in Keys :
          LET r == read_to_string(disk, Loc(k))
          IN  IF r.ok
              THEN /\ ret' = Value("read_file", k, r.val)
                   /\ phase' = "live"
              ELSE /\ ret' = Panic("read_file", k)
                   /\ phase' = "panicked"
    /\ UNCHANGED <<entries, cfg_command_callback, disk, last, setups, dirty,
                   repeated, ow>>

\* Mutant of chmod_exec: the mode lacks the executable bits.
chmod_rw(d, p) == set_permissions(d, p, FileMode)

\* set_permissions(file, Permissions::from_mode(0o755))
chmod_exec(d, p) == set_permissions(d, p, ExecMode)

set_exec_permission ==
    /\ phase = "live"
    /\ \E k \in Keys :
          LET r == chmod_exec(disk, Loc(k))
          IN  /\ disk' = r.disk
              /\ ret' = Result("set_exec_permission", k, r.ok)
    /\ UNCHANGED <<entries, cfg_command_callback, phase, last, setups, dirty,
                   repeated, ow>>

tree_ ==
    /\ phase = "live"
    /\ \E w \in WalkDir(disk) : ret' = Value("tree", << >>, tree(w))
    /\ UNCHANGED <<entries, cfg_command_callback, disk, phase, last, setups,
                   dirty, repeated, ow>>

command ==
    /\ phase = "live"
    /\ \E crate \in Crates :
          LET c == cargo_bin(crate)
          IN  IF c.ok
              THEN /\ ret' = Value("command", << >>,
                                   callback(cfg_command_callback, RootPath,
                                            bound_command(c.val)))
                   /\ phase' = "live"
              ELSE /\ ret' = Panic("command", << >>)
                   /\ phase' = "panicked"
    /\ UNCHANGED <<entries, cfg_command_callback, disk, last, setups, dirty,
                   repeated, ow>>

\* Mutant of drop: the tree is removed only when the test did not panic.
drop_on_success ==
    /\ phase \in {"live", "panicked"}
    /\ disk' = IF phase = "live" THEN remove_dir_all(disk) ELSE disk
    /\ phase' = "dropped"
    /\ UNCHANGED <<entries, cfg_command_callback, ret, last, setups, dirty,
                   repeated, ow>>

\* The environment goes out of scope, at the end of the test or while a panic
\* unwinds: its tmp_dir field is dropped, and TempDir's Drop removes the tree.
drop ==
    /\ phase \in {"live", "panicked"}
    /\ disk' = remove_dir_all(disk)
    /\ phase' = "dropped"
    /\ UNCHANGED <<entries, cfg_command_callback, ret, last, setups, dirty,
                   repeated, ow>>

Next ==
    \/ set_cfg_command_callback
    \/ add_file
    \/ add_dir
    \/ setup
    \/ read_file
    \/ set_exec_permission
    \/ tree_
    \/ command
    \/ drop

Spec == Init /\ [][Next]_vars

\* ----------------------------------------------------------------- claims

Range(t) == { t[i] : i \in DOMAIN t }

\* The places the calls of a history name, with every directory above them;
\* the workspace root is not one of them.
Implied(h) ==
    UNION { { SubSeq(Loc(k), 1, n) : n \in 1..Len(Loc(k)) } : k \in EntryKeys(h) }

\* t lists the members of S once each, in ascending order.
SortedListing(t, S) ==
    /\ Len(t) = Cardinality(S)
    /\ Range(t) = S
    /\ \A i, j \in DOMAIN t : i < j => PathLess(t[i], t[j])

\* Every sequence tree() may return on a workspace.
Trees(d) == { tree(w) : w \in WalkDir(d) }

OwnerExec(n) == (n.mode \div 64) % 2 = 1

\* No other key with an entry names the place of k.
Sole(h, k) == \A j \in Keys \ {k} : Loc(j) = Loc(k) => h[j] = NoEntry

\* The places a store needs as directories: its directory entries and what
\* lies above any entry.
NeedDir(e) ==
    UNION { { SubSeq(Loc(k), 1, n) : n \in 0..(Len(Loc(k)) - 1) } \cup
            (IF e[k] = None THEN {Loc(k)} ELSE {}) : k \in EntryKeys(e) }

\* The places a store needs as regular files.
NeedFile(e) == { Loc(k) : k \in { j \in Keys : e[j].tag = "Some" } }

\* A store asks a place to be both, or to be what the workspace holds the
\* other kind of.
Conflict(e, d) ==
    \/ NeedDir(e) \cap NeedFile(e) # {}
    \/ \E p \in NeedDir(e) : IsFile(d, p)
    \/ \E p \in NeedFile(e) : IsDir(d, p)

\* C1: after add_file/add_dir calls on a fresh environment and setup(),
\* tree() returns exactly the sorted places of those calls and the
\* directories above them, and no entry for the workspace root.
C1_TreeIsSortedClosure ==
    (phase = "live" /\ ret.op = "tree" /\ setups = 1 /\ ~dirty)
        => SortedListing(ret.val, Implied(last))

\* C2: when the last builder call for P before setup() was add_file(P, C),
\* read_file(P) after setup() returns C, whatever else the store holds.
C2_RoundTrip ==
    (phase = "live" /\ ret.op = "read_file" /\ setups >= 1 /\ ~dirty
        /\ last[ret.arg].tag = "Some")
        => ret.val = last[ret.arg].content

\* C3: after setup(), every path is of the kind its last builder call gave
\* it: a directory and not a file after add_dir, a regular file after
\* add_file, with the content of that call when no other key names its place.
C3_LastWriteWins ==
    (phase # "dropped" /\ setups >= 1 /\ ~dirty)
        => \A k \in Keys :
              /\ last[k] = None => IsDir(disk, Loc(k)) /\ ~IsFile(disk, Loc(k))
              /\ last[k].tag = "Some" =>
                    /\ IsFile(disk, Loc(k))
                    /\ Sole(last, k) => disk[Loc(k)].content = last[k].content

\* C3, witness: add_file(P, c) then add_dir(P), then setup(): P is a directory.
C3_Witness ==
    /\ phase = "live" /\ setups = 1 /\ ~dirty
    /\ ow # << >>
    /\ last[ow] = None
    /\ IsDir(disk, Loc(ow))

\* C4: whenever setup() returns under two orders of visiting the store, it
\* leaves the same workspace (paths, kinds, contents).
C4_OrderIndependent ==
    phase = "live" =>
        \A o1, o2 \in Orders(EntryKeys(entries)) :
            LET r1 == setup_from(disk, entries, o1, 1)
                r2 == setup_from(disk, entries, o2, 1)
            IN  (r1.ok /\ r2.ok) => r1.disk = r2.disk

\* C5: a setup() that follows a setup() with no add_file/add_dir call in
\* between leaves tree() returning the sequence it returned before.
C5_SetupIdempotent ==
    [][ (phase = "live" /\ setups >= 1 /\ ~dirty
            /\ ret'.op = "setup" /\ phase' = "live" /\ setups' = setups + 1)
        => \A t1 \in Trees(disk), t2 \in Trees(disk') : t1 = t2 ]_vars

\* C5, witness: the second of two such setup() calls has returned, on a
\* workspace that holds siblings.
C5_Witness ==
    /\ phase = "live" /\ repeated /\ ret.op = "setup"
    /\ IsFile(disk, <<"a">>)
    /\ IsFile(disk, <<"b", "a">>)

\* C6: set_exec_permission never panics; on a materialized file it returns Ok
\* and the file is executable by its owner; on a path that does not exist it
\* returns Err and leaves the workspace and the store as they were.
C6_SetExecPermission ==
    [][ (phase = "live" /\ ret'.op = "set_exec_permission" /\ phase' # "dropped")
        => LET p == Loc(ret'.arg)
           IN  /\ phase' = "live"
               /\ ret'.status \in {"Ok", "Err"}
               /\ IsFile(disk, p) =>
                     /\ ret'.status = "Ok"
                     /\ IsFile(disk', p)
                     /\ OwnerExec(disk'[p])
                     /\ disk'[p].content = disk[p].content
               /\ ~Exists(disk, p) =>
                     /\ ret'.status = "Err"
                     /\ disk' = disk
                     /\ entries' = entries ]_vars

\* C6, witness: set_exec_permission("b/a") has returned Ok on a file.
C6_Witness ==
    /\ phase = "live" /\ ret.op = "set_exec_permission" /\ ret.status = "Ok"
    /\ ret.arg = <<"b", "a">>
    /\ IsFile(disk, Loc(ret.arg))
    /\ OwnerExec(disk[Loc(ret.arg)])

\* C7 as stated: whatever hook is stored, the invocation command() returns
\* has the workspace root as its working directory.
C7_RootUnderEveryHook ==
    (phase = "live" /\ ret.op = "command") => ret.val.current_dir = RootPath

\* C7 amended: command() returns the stored hook's result on a fresh
\* invocation of the crate's binary bound to the workspace root, the hook
\* applied once; its working directory is the root unless the hook set another.
C7_RootUnlessHookOverrides ==
    (phase = "live" /\ ret.op = "command")
        => /\ ret.val.program = "bin"
           /\ cfg_command_callback \in {"identity", "arg"} =>
                 ret.val.current_dir = RootPath
           /\ cfg_command_callback = "chdir" =>
                 ret.val.current_dir = RootPath \o <<"a">>
           /\ ret.val.args =
                 IF cfg_command_callback = "arg" THEN <<RootPath>> ELSE << >>

\* C7, witness: command() has returned under a hook that adds an argument.
C7_Witness ==
    /\ phase = "live" /\ ret.op = "command"
    /\ cfg_command_callback = "arg"
    /\ ret.val.current_dir = RootPath
    /\ ret.val.args = <<RootPath>>

\* C8: once the environment is dropped, after a normal run or a panic,
\* neither the workspace root nor anything below it exists; and until then
\* the drop is still to come, so no run ends with the workspace present.
C8_CleanupOnEveryExit ==
    /\ phase = "dropped" => \A p \in Locs : ~Exists(disk, p)
    /\ phase # "dropped" => ENABLED drop

\* C8, witness: the environment was dropped while a panic of a later setup()
\* unwound, the workspace holding what the first setup() made.
C8_Witness ==
    /\ phase = "dropped"
    /\ ret.op = "setup" /\ ret.status = "panic"
    /\ setups >= 1

\* C9: add_file, add_dir and set_cfg_command_callback leave the workspace as
\* it is, and before the first setup() the workspace holds the root alone.
C9_DeferredMaterialization ==
    /\ [](phase = "live" /\ setups = 0 => disk = NewDisk)
    /\ [][ (phase' = "live"
              /\ ret'.op \in {"add_file", "add_dir", "set_cfg_command_callback"})
           => disk' = disk ]_vars

\* C9, witness: a file added after a setup() is in the store, not on disk.
C9_Witness ==
    /\ phase = "live" /\ setups >= 1 /\ dirty /\ ret.op = "add_file"
    /\ \E k \in Keys : entries[k].tag = "Some" /\ ~Exists(disk, Loc(k))

\* C10 as stated: a later setup() never panics, whatever add_file/add_dir
\* calls changed the store since.
C10_ResetupNeverPanics ==
    [][ (phase = "live" /\ setups >= 1 /\ ret'.op = "setup")
        => phase' # "panicked" ]_vars

\* C10 amended: a later setup() panics exactly when the store asks a place
\* to be a directory where the workspace (or the store) has a file, or a file
\* where it has a directory; otherwise it returns, every entry materialized
\* and the directories that existed left as they were.
C10_ResetupPanicsOnKindChange ==
    [][ (phase = "live" /\ setups >= 1 /\ ret'.op = "setup" /\ phase' # "dropped")
        => /\ (phase' = "panicked") = Conflict(entries, disk)
           /\ phase' = "live" =>
                 /\ \A k \in EntryKeys(entries) :
                       IF entries[k] = None
                       THEN IsDir(disk', Loc(k))
                       ELSE /\ IsFile(disk', Loc(k))
                            /\ \E j \in Keys :
                                  /\ Loc(j) = Loc(k)
                                  /\ entries[j] = Some(disk'[Loc(k)].content)
                 /\ \A p \in Locs : IsDir(disk, p) => disk'[p] = disk[p] ]_vars

\* C10, witness: a second setup() has returned after add_file/add_dir calls
\* changed the store, with a file in the workspace.
C10_Witness ==
    /\ phase = "live" /\ setups = 2 /\ ~repeated /\ ret.op = "setup"
    /\ \E k \in Keys : IsFile(disk, Loc(k))

====
